---- MODULE Spec2Model ----
(***************************************************************************)
(* A model of decode_shortcut.py: the two payload extractors, the plist    *)
(* decode, the action renderer, process_shortcut and the batch loop of     *)
(* main.                                                                   *)
(*                                                                         *)
(* Bytes are integers 0..255 and byte strings are sequences of them.       *)
(* Offsets are 0-based as in Python; Slice/Find convert to TLA+ indexing.  *)
(***************************************************************************)
EXTENDS Integers, Sequences, FiniteSets, TLC

VARIABLES
    \* ---- extract_aea1_lzfse_payload as a pure function (SpecAea)
    aeaData,     \* the bytes read from the file
    aeaLz,       \* TRUE iff the lzfse module was importable
    aeaRes,      \* the call's outcome, or NoResult before the call
    aeaPc,       \* "start" | "done" | "off"
    \* ---- render_action_list as a pure function (SpecRender)
    rDoc,        \* the decoded document
    rWf,         \* the value the renderer bound to wf, or NoValue
    rRes,        \* the call's outcome, or NoResult before the call
    rPc,         \* "start" | "done" | "off"
    \* ---- main and process_shortcut (Spec)
    files,       \* args.files: the input paths, in command-line order
    do_xml,      \* args.xml or args.both
    do_actions,  \* args.actions or args.both
    lzfse,       \* TRUE iff the lzfse module was importable
    fs,          \* the filesystem: path -> file content, or Missing
    idx,         \* 1-based position of the loop in files
    pc,          \* where main stands
    e,           \* the exception caught from extract_cms_payload
    payload,     \* the extracted payload
    via,         \* the extractor that produced it: "cms" | "aea1" | "none"
    plist_dict,  \* the decoded document
    log          \* what happened so far: reports, extractor attempts, writes

aeaVars == <<aeaData, aeaLz, aeaRes, aeaPc>>
renderVars == <<rDoc, rWf, rRes, rPc>>
mainVars == <<files, do_xml, do_actions, lzfse, fs, idx, pc, e, payload, via,
              plist_dict, log>>
vars == <<aeaVars, renderVars, mainVars>>

\* ------------------------------------------------------------------ bounds
MaxSegs == 2        \* segments after the certificate region of a generated file
MaxActions == 2     \* entries of a generated action sequence
MaxFiles == 2       \* input paths on a command line

\* --------------------------------------------------------- byte strings
AEA1Magic == <<65, 69, 65, 49>>                        \* b"AEA1"
BvxMagic == <<98, 118, 120>>                           \* b"bvx"
BplistMagic == <<98, 112, 108, 105, 115, 116, 48, 48>> \* b"bplist00"
BvxRaw == BvxMagic \o <<45>>                           \* b"bvx-"  uncompressed block
BvxEnd == BvxMagic \o <<36>>                           \* b"bvx$"  end of stream

\* data[from:] with a 0-based offset
Slice(data, from) == SubSeq(data, from + 1, Len(data))

\* data[from:to]; Python clamps both ends to the buffer
SliceTo(data, from, to) ==
    SubSeq(data, from + 1, IF to < Len(data) THEN to ELSE Len(data))

\* TRUE iff needle occurs in data at 0-based offset i
MatchAt(data, needle, i) ==
    /\ i >= 0
    /\ i + Len(needle) <= Len(data)
    /\ SubSeq(data, i + 1, i + Len(needle)) = needle

\* bytes.startswith
StartsWith(data, prefix) == MatchAt(data, prefix, 0)

\* bytes.find(needle, start): the lowest offset >= start of an occurrence, or -1
Find(data, needle, start) ==
    LET hits == { i \in start..(Len(data) - Len(needle)) : MatchAt(data, needle, i) }
    IN  IF hits = {} THEN -1 ELSE CHOOSE i \in hits : \A j \in hits : i <= j

RECURSIVE FromBytesLittle(_)
\* int.from_bytes(b, "little")
FromBytesLittle(b) ==
    IF b = <<>> THEN 0 ELSE b[1] + 256 * FromBytesLittle(Tail(b))

\* the 4-byte little-endian encoding of n (used to build inputs)
LE32(n) == << n % 256, (n \div 256) % 256, (n \div 65536) % 256, (n \div 16777216) % 256 >>

\* -------------------------------------------------------------- outcomes
Ok(v) == [ok |-> TRUE, val |-> v]
Raise(msg) == [ok |-> FALSE, err |-> msg]
NoResult == [ok |-> FALSE, err |-> "not called"]

\* ------------------------------------------------------ lzfse.decompress
\* The LZFSE stream format restricted to uncompressed blocks: a stream is a
\* run of blocks "bvx-" <n: 4 bytes LE> <n raw bytes> closed by "bvx$".
\* Anything else (unknown block magic, a block cut short, a stream that
\* ends without "bvx$") is a decode error; bytes after "bvx$" are ignored.
\* A stream of "bvx$" alone decodes to no bytes; the extractor then fails for
\* want of the document marker, as it does if the binding raises instead.
RECURSIVE Decompress(_)
Decompress(c) ==
    IF StartsWith(c, BvxEnd) THEN Ok(<<>>)
    ELSE IF StartsWith(c, BvxRaw) /\ Len(c) >= 8
    THEN LET n == FromBytesLittle(SliceTo(c, 4, 8))
         IN  IF 8 + n > Len(c) THEN Raise("lzfse.error")
             ELSE LET rest == Decompress(Slice(c, 8 + n))
                  IN  IF rest.ok THEN Ok(SliceTo(c, 8, 8 + n) \o rest.val)
                      ELSE rest
    ELSE Raise("lzfse.error")

\* ------------------------------------------- extract_aea1_lzfse_payload
ErrNoLzfse == "Missing dependency: install lzfse to parse AEA1 shortcuts"
ErrNotAea1 == "Not an AEA1/LZFSE shortcut"
ErrNoBlock == "LZFSE section not found inside AEA1 container"
ErrNoPlist == "Embedded plist not found after decompressing AEA1 payload"

\* the extractor with the scan for "bvx" started at offset 0 instead of at
\* payload_start
extract_aea1_scan_from_zero(data, lz) ==
    IF ~lz THEN Raise(ErrNoLzfse)
    ELSE IF ~StartsWith(data, AEA1Magic) THEN Raise(ErrNotAea1)
    ELSE
      LET magic_index == Find(data, BvxMagic, 0)
      IN  IF magic_index = -1 THEN Raise(ErrNoBlock)
          ELSE
            LET decompressed == Decompress(Slice(data, magic_index))
            IN  IF ~decompressed.ok THEN decompressed
                ELSE
                  LET plist_index == Find(decompressed.val, BplistMagic, 0)
                  IN  IF plist_index = -1 THEN Raise(ErrNoPlist)
                      ELSE Ok(Slice(decompressed.val, plist_index))

\* the extractor returning the whole decompressed buffer, not the slice
\* from the document marker on
extract_aea1_whole_buffer(data, lz) ==
    IF ~lz THEN Raise(ErrNoLzfse)
    ELSE IF ~StartsWith(data, AEA1Magic) THEN Raise(ErrNotAea1)
    ELSE
      LET magic_index == Find(data, BvxMagic, 12 + FromBytesLittle(SliceTo(data, 8, 12)))
      IN  IF magic_index = -1 THEN Raise(ErrNoBlock)
          ELSE
            LET decompressed == Decompress(Slice(data, magic_index))
            IN  IF ~decompressed.ok THEN decompressed
                ELSE IF Find(decompressed.val, BplistMagic, 0) = -1 THEN Raise(ErrNoPlist)
                ELSE decompressed

extract_aea1_lzfse_payload(data, lz) ==
    IF ~lz THEN Raise(ErrNoLzfse)
    ELSE IF ~StartsWith(data, AEA1Magic) THEN Raise(ErrNotAea1)
    ELSE
      LET cert_len == FromBytesLittle(SliceTo(data, 8, 12))
          payload_start == 12 + cert_len
          magic_index == Find(data, BvxMagic, payload_start)
      IN  IF magic_index = -1 THEN Raise(ErrNoBlock)
          ELSE
            LET decompressed == Decompress(Slice(data, magic_index))
            IN  IF ~decompressed.ok THEN decompressed
                ELSE
                  LET plist_index == Find(decompressed.val, BplistMagic, 0)
                  IN  IF plist_index = -1 THEN Raise(ErrNoPlist)
                      ELSE Ok(Slice(decompressed.val, plist_index))

\* ------------------------------------------------------- Python values
\* What plistlib.loads builds: dict (key/value pairs in stored order), list,
\* str and int, each tagged with its type.
PyDict(pairs) == [t |-> "dict", d |-> pairs]
PyList(items) == [t |-> "list", l |-> items]
PyStr(s) == [t |-> "str", s |-> s]
PyInt(n) == [t |-> "int", n |-> n]
NoValue == [t |-> "none"]

\* bool(x)
Truthy(x) ==
    CASE x.t = "dict" -> x.d # <<>>
      [] x.t = "list" -> x.l # <<>>
      [] x.t = "str" -> x.s # ""
      [] x.t = "int" -> x.n # 0
      [] OTHER -> FALSE

\* key in d, for a dict d
HasKey(d, key) == \E k \in 1..Len(d.d) : d.d[k][1] = key

\* d.get(key, default), for a dict d
Get(d, key, default) ==
    IF HasKey(d, key)
    THEN d.d[CHOOSE k \in 1..Len(d.d) : d.d[k][1] = key][2]
    ELSE default

RECURSIVE Repr(_)
RECURSIVE ReprItems(_)
RECURSIVE ReprPairs(_)
\* repr(x)
Repr(x) ==
    CASE x.t = "str" -> "'" \o x.s \o "'"
      [] x.t = "int" -> ToString(x.n)
      [] x.t = "list" -> "[" \o ReprItems(x.l) \o "]"
      [] x.t = "dict" -> "{" \o ReprPairs(x.d) \o "}"
      [] OTHER -> "None"
ReprItems(items) ==
    IF items = <<>> THEN ""
    ELSE Repr(Head(items))
         \o (IF Len(items) > 1 THEN ", " \o ReprItems(Tail(items)) ELSE "")
ReprPairs(pairs) ==
    IF pairs = <<>> THEN ""
    ELSE "'" \o Head(pairs)[1] \o "': " \o Repr(Head(pairs)[2])
         \o (IF Len(pairs) > 1 THEN ", " \o ReprPairs(Tail(pairs)) ELSE "")

\* str(x), what an f-string puts for {x}
Str(x) == IF x.t = "str" THEN x.s ELSE Repr(x)

\* ---------------------------------------------------- render_action_list
\* A text is the sequence of its lines: "\n".join(output_lines) split at the
\* newlines, with the empty string as no line at all. An element of
\* output_lines that starts with "\n" is a blank line and the line after it.
KeyWorkflow == "WFWorkflow"
KeyActions == "WFWorkflowActions"
KeyIdentifier == "WFWorkflowActionIdentifier"
KeyParameters == "WFWorkflowActionParameters"

\* wf = plist_dict.get("WFWorkflow") or plist_dict
WorkflowView(root) ==
    LET nested == Get(root, KeyWorkflow, NoValue)
    IN  IF Truthy(nested) THEN nested ELSE root

\* what `for ... in enumerate(actions, start=1)` walks over
Iterate(actions) ==
    CASE actions.t = "list" -> Ok(actions.l)
      [] actions.t = "dict" -> Ok([k \in 1..Len(actions.d) |-> PyStr(actions.d[k][1])])
      \* a non-empty str yields its characters, each a str: one stands for all
      [] actions.t = "str" -> IF actions.s = "" THEN Ok(<<>>) ELSE Ok(<<PyStr("c")>>)
      [] OTHER -> Raise("TypeError")

\* f"\n=== Action {i}: {action_type} ==="
HeaderLinesFromZero(i, action) ==
    << "",
       "=== Action " \o ToString(i - 1) \o ": "
         \o Str(Get(action, KeyIdentifier, PyStr("UnknownAction"))) \o " ===" >>

HeaderLines(i, action) ==
    << "",
       "=== Action " \o ToString(i) \o ": "
         \o Str(Get(action, KeyIdentifier, PyStr("UnknownAction"))) \o " ===" >>

\* the lines of `for k, v in params.items()`
ParamLines(params) ==
    [k \in 1..Len(params.d) |-> params.d[k][1] \o ": " \o Str(params.d[k][2])]

RECURSIVE RenderActions(_, _)
\* the loop body, for the entries from the i-th on
RenderActions(items, i) ==
    IF items = <<>> THEN Ok(<<>>)
    ELSE
      LET action == Head(items)
      IN  IF action.t # "dict" THEN Raise("AttributeError")
          ELSE
            LET params == Get(action, KeyParameters, PyDict(<<>>))
            IN  IF Truthy(params) /\ params.t # "dict" THEN Raise("AttributeError")
                ELSE
                  LET body == IF Truthy(params) THEN ParamLines(params)
                              ELSE <<"(No parameters)">>
                      rest == RenderActions(Tail(items), i + 1)
                  IN  IF rest.ok THEN Ok(HeaderLines(i, action) \o body \o rest.val)
                      ELSE rest

\* the function from `actions = wf.get(...)` on, for the chosen wf
RenderWorkflow(wf) ==
    IF wf.t # "dict" THEN Raise("AttributeError")
    ELSE
      LET walk == Iterate(Get(wf, KeyActions, PyList(<<>>)))
      IN  IF walk.ok THEN RenderActions(walk.val, 1) ELSE walk

render_action_list(root) == RenderWorkflow(WorkflowView(root))

\* ---------------------------------------------------- generated inputs
\* decompressed contents: junk, the marker at offset 0, 1 and 2, the marker
\* twice, a marker cut short
Plains ==
    { <<7, 7>>,
      BplistMagic \o <<1>>,
      <<7>> \o BplistMagic \o <<2>>,
      <<7, 7>> \o BplistMagic \o <<3>> \o BplistMagic \o <<4>>,
      SubSeq(BplistMagic, 1, 7) \o <<5>> }

RawBlock(p) == BvxRaw \o LE32(Len(p)) \o p

\* pieces a container body is made of
Segments ==
    { <<0>>, BvxMagic \o <<0>>, BvxEnd }
    \cup { RawBlock(p) \o BvxEnd : p \in Plains }
    \cup { RawBlock(<<7>>) \o RawBlock(BplistMagic \o <<6>>) \o BvxEnd,
           RawBlock(BplistMagic \o <<8>>) }

RECURSIVE Concat(_)
Concat(ss) == IF ss = <<>> THEN <<>> ELSE Head(ss) \o Concat(Tail(ss))

Bodies == { Concat(ss) : ss \in UNION { [1..n -> Segments] : n \in 0..MaxSegs } }

\* what follows the 12-byte header where the certificate chain sits
CertRegions ==
    { <<>>, <<0, 0>>, BvxMagic \o <<0>>,
      RawBlock(BplistMagic \o <<9>>) \o BvxEnd }

\* the certLen field: 0, the region's length, one more, the whole rest, one
\* past the end of the buffer, and a two-byte value
CertLens(cert, body) ==
    { 0, Len(cert), Len(cert) + 1, Len(cert) + Len(body),
      Len(cert) + Len(body) + 1, 300 }

Header(magic, n) == magic \o <<0, 0, 0, 0>> \o LE32(n)

AeaInputs ==
    UNION { { Header(AEA1Magic, n) \o cert \o body : n \in CertLens(cert, body) } :
            cert \in CertRegions, body \in Bodies }

\* files cut inside the 12-byte header, and files with another magic
ShortInputs ==
    { SubSeq(Header(AEA1Magic, 1), 1, k) : k \in {4, 10, 12} }
    \cup { Header(<<65, 69, 65, 50>>, 0) \o RawBlock(BplistMagic \o <<1>>) \o BvxEnd,
           <<>>, <<65, 69>> }

\* the parts of the state a specification does not use
AeaOff == aeaData = <<>> /\ aeaLz = TRUE /\ aeaRes = NoResult /\ aeaPc = "off"
RenderOff == rDoc = NoValue /\ rWf = NoValue /\ rRes = NoResult /\ rPc = "off"
MainOff ==
    /\ files = <<>> /\ do_xml = FALSE /\ do_actions = FALSE /\ lzfse = TRUE
    /\ fs = <<>> /\ idx = 0 /\ pc = "off" /\ e = "" /\ payload = <<>>
    /\ via = "none" /\ plist_dict = NoValue /\ log = <<>>

\* -------------------------------------------------------------- SpecAea
AeaInit ==
    /\ RenderOff
    /\ MainOff
    /\ \/ aeaLz = TRUE /\ aeaData \in AeaInputs \cup ShortInputs
       \/ aeaLz = FALSE /\ aeaData \in ShortInputs
    /\ aeaRes = NoResult
    /\ aeaPc = "start"

\* one call of extract_aea1_lzfse_payload
AeaExtract ==
    /\ aeaPc = "start"
    /\ aeaRes' = extract_aea1_lzfse_payload(aeaData, aeaLz)
    /\ aeaPc' = "done"
    /\ UNCHANGED <<aeaData, aeaLz, renderVars, mainVars>>

AeaNext == AeaExtract

SpecAea == AeaInit /\ [][AeaNext]_vars

\* the little-endian 32-bit value of data[8:12] of a buffer of 12 bytes or more
CertLenField(data) ==
    data[9] + 256 * data[10] + 65536 * data[11] + 16777216 * data[12]

\* o is the lowest offset >= from at which needle occurs in data
LowestAt(data, needle, from, o) ==
    /\ o >= from
    /\ MatchAt(data, needle, o)
    /\ \A k \in from..(o - 1) : ~MatchAt(data, needle, k)

\* C4: when extract_aea1_lzfse_payload succeeds its result is decompressed[i:],
\* where decompressed = decompress(data[j:]), j is the lowest offset
\* >= 12 + certLen of the 3-byte block marker and i the lowest offset of the
\* 8-byte document marker in decompressed; the result begins with the whole
\* marker and runs to the end of the decompressed buffer.
C4_ResultIsSliceAtMarker ==
    (aeaPc = "done" /\ aeaRes.ok) =>
        /\ Len(aeaData) >= 12
        /\ \E j \in 0..Len(aeaData) :
            /\ LowestAt(aeaData, BvxMagic, 12 + CertLenField(aeaData), j)
            /\ LET d == Decompress(Slice(aeaData, j))
               IN  /\ d.ok
                   /\ \E i \in 0..Len(d.val) :
                        /\ LowestAt(d.val, BplistMagic, 0, i)
                        /\ aeaRes.val = Slice(d.val, i)
                        /\ SubSeq(aeaRes.val, 1, 8) = BplistMagic
                        /\ Len(aeaRes.val) = Len(d.val) - i

\* C4 witness: a successful extraction that skipped a block marker lying
\* before payloadStart and cut bytes in front of the document marker
C4_Witness ==
    /\ aeaPc = "done"
    /\ aeaRes.ok
    /\ Find(aeaData, BvxMagic, 0) < 12 + CertLenField(aeaData)
    /\ \E j \in 0..Len(aeaData) :
        /\ LowestAt(aeaData, BvxMagic, 12 + CertLenField(aeaData), j)
        /\ Len(Decompress(Slice(aeaData, j)).val) > Len(aeaRes.val)

\* payloadStart = 12 + certLen lies beyond the end of an "AEA1" buffer
PayloadStartBeyond(data) ==
    /\ StartsWith(data, AEA1Magic)
    /\ 12 + FromBytesLittle(SliceTo(data, 8, 12)) > Len(data)

\* C6: an "AEA1" input whose payloadStart exceeds the buffer length fails with
\* a TruncatedHeader error that is not the error of a missing block marker.
C6_TruncatedHeaderIsDistinct ==
    (aeaPc = "done" /\ aeaLz /\ PayloadStartBeyond(aeaData)) =>
        (~aeaRes.ok /\ aeaRes.err # ErrNoBlock)


\* ----------------------------------------------------- generated documents
Pair(k, v) == << <<k, v>> >>

ParamMaps ==
    { <<>>,
      Pair("WFText", PyStr("hello")),
      Pair("WFText", PyStr("hello")) \o Pair("Count", PyInt(2)),
      Pair("Count", PyInt(2)) \o Pair("WFText", PyStr("hello")),
      Pair("Items", PyList(<<PyInt(1), PyStr("a")>>)) }

\* what the parameters field may hold: a mapping, or a value of another type
ParamValues ==
    { PyDict(m) : m \in ParamMaps }
    \cup { PyStr(""), PyStr("xy"), PyList(<<>>), PyInt(0) }

IdPairs == { <<>>, Pair(KeyIdentifier, PyStr("is.workflow.actions.gettext")) }

ActionEntries ==
    { PyDict(i) : i \in IdPairs }
    \cup { PyDict(i \o Pair(KeyParameters, pv)) : i \in IdPairs, pv \in ParamValues }
    \cup { PyStr("x"), PyInt(3) }

\* what the actions field may hold: a list of entries, or another type
ActionSeqValues ==
    { PyList(es) : es \in UNION { [1..n -> ActionEntries] : n \in 0..MaxActions } }
    \cup { PyStr(""), PyStr("ab"), PyInt(3), PyDict(<<>>), PyDict(Pair("k", PyInt(1))) }

ActionA == PyDict(Pair(KeyIdentifier, PyStr("a")))
ActionB == PyDict(Pair(KeyIdentifier, PyStr("b")) \o Pair(KeyParameters, PyDict(Pair("p", PyInt(1)))))
SmallSeqs == { PyList(<<>>), PyList(<<ActionA>>), PyList(<<ActionB, ActionA>>) }

\* what the nested workflow field may hold
WfValues ==
    { PyDict(<<>>), PyDict(Pair("WFWorkflowName", PyStr("n"))),
      PyStr(""), PyStr("abc"), PyInt(0), PyList(<<>>) }
    \cup { PyDict(Pair(KeyActions, a)) : a \in SmallSeqs }

Docs ==
    { PyDict(<<>>) }
    \cup { PyDict(Pair(KeyActions, a)) : a \in ActionSeqValues }
    \cup { PyDict(Pair(KeyWorkflow, w)) : w \in WfValues }
    \cup { PyDict(Pair(KeyWorkflow, w) \o Pair(KeyActions, a)) :
             w \in WfValues, a \in SmallSeqs }

\* ----------------------------------------------------------- SpecRender
RenderInit ==
    /\ AeaOff
    /\ MainOff
    /\ rDoc \in Docs
    /\ rWf = NoValue
    /\ rRes = NoResult
    /\ rPc = "start"

\* one call of render_action_list
Render ==
    /\ rPc = "start"
    /\ rWf' = WorkflowView(rDoc)
    /\ rRes' = render_action_list(rDoc)
    /\ rPc' = "done"
    /\ UNCHANGED <<rDoc, aeaVars, mainVars>>

RenderNext == Render

SpecRender == RenderInit /\ [][RenderNext]_vars

\* C7: the action sequence is read from the nested "WFWorkflow" field whenever
\* the key is present in the root, whatever its value, and from the root only
\* when the key is absent.
C7_NestedWinsIfPresent ==
    rPc = "done" =>
        /\ (HasKey(rDoc, KeyWorkflow) /\ Get(rDoc, KeyWorkflow, NoValue).t = "dict")
              => rWf = Get(rDoc, KeyWorkflow, NoValue)
        /\ ~HasKey(rDoc, KeyWorkflow) => rWf = rDoc

\* C9: render_action_list returns a text for every document and never raises.
C9_RenderNeverRaises == rPc = "done" => rRes.ok

\* the entries of the action sequence the renderer read from wf
ActionsRead == Get(rWf, KeyActions, PyList(<<>>))
Entries == IF ActionsRead.t = "list" THEN ActionsRead.l ELSE <<>>

\* TRUE iff the entry's parameter field holds a mapping with an entry in it
HasParams(entry) ==
    /\ HasKey(entry, KeyParameters)
    /\ Get(entry, KeyParameters, NoValue).t = "dict"
    /\ Get(entry, KeyParameters, NoValue).d # <<>>

\* the number of text lines of one entry, and of the entries before the i-th
BlockLen(entry) ==
    2 + (IF HasParams(entry) THEN Len(Get(entry, KeyParameters, NoValue).d) ELSE 1)
RECURSIVE LinesBefore(_, _)
LinesBefore(es, i) == IF i <= 1 THEN 0 ELSE LinesBefore(es, i - 1) + BlockLen(es[i - 1])

\* the document holds what the data model says: the workflow view is a
\* mapping, its action sequence absent or a list of mappings, each parameter
\* field absent or a mapping
WellFormed ==
    /\ rWf.t = "dict"
    /\ ActionsRead.t = "list"
    /\ \A i \in 1..Len(Entries) :
         /\ Entries[i].t = "dict"
         /\ HasKey(Entries[i], KeyParameters)
              => Get(Entries[i], KeyParameters, NoValue).t = "dict"

\* C8: for an action sequence of n entries the text is, for i = 1..n in
\* order, a blank line, a header line with the 1-based index i and the
\* identifier ("UnknownAction" when missing), then one "key: value" line per
\* parameter in stored order, or one "(No parameters)" line when the mapping
\* is empty or absent; an absent sequence renders as the empty text. A text
\* is returned for every well-formed document, and every text returned is so.
C8_RenderedBlocks ==
    rPc = "done" =>
      /\ WellFormed => rRes.ok
      /\ rRes.ok =>
        LET es == Entries
            n == Len(es)
            text == rRes.val
        IN  /\ Len(text) = LinesBefore(es, n + 1)
            /\ (~HasKey(rWf, KeyActions) => text = <<>>)
            /\ \A i \in 1..n :
                LET at == LinesBefore(es, i)
                    entry == es[i]
                IN  /\ text[at + 1] = ""
                    /\ text[at + 2] =
                         "=== Action " \o ToString(i) \o ": "
                         \o (IF HasKey(entry, KeyIdentifier)
                             THEN Str(Get(entry, KeyIdentifier, NoValue))
                             ELSE "UnknownAction")
                         \o " ==="
                    /\ IF HasParams(entry)
                       THEN LET ps == Get(entry, KeyParameters, NoValue).d
                            IN  \A k \in 1..Len(ps) :
                                  text[at + 2 + k] = ps[k][1] \o ": " \o Str(ps[k][2])
                       ELSE text[at + 3] = "(No parameters)"

\* C8 witness: a rendered sequence of two entries or more, one with two
\* parameters and one with neither identifier nor parameters
C8_Witness ==
    /\ rPc = "done"
    /\ rRes.ok
    /\ Len(Entries) >= 2
    /\ \E i \in 1..Len(Entries) :
         HasParams(Entries[i]) /\ Len(Get(Entries[i], KeyParameters, NoValue).d) = 2
    /\ \E i \in 1..Len(Entries) :
         ~HasKey(Entries[i], KeyIdentifier) /\ ~HasParams(Entries[i])

\* ------------------------------------------------------------------ paths
\* A path is its file name split at the dots: a.actions.txt is
\* <<"a", "actions", "txt">>. All paths lie in one directory; with_suffix
\* keeps the directory, so paths of different directories never meet.
SuffixXml == <<"xml">>                   \* ".xml"
SuffixActions == <<"actions", "txt">>    \* ".actions.txt"

\* Path.with_suffix: the last suffix, if the name has one, is replaced
with_suffix(path, suffix) ==
    (IF Len(path) > 1 THEN SubSeq(path, 1, Len(path) - 1) ELSE path) \o suffix

InputPaths ==
    { <<"a", "shortcut">>, <<"a", "plist">>, <<"a", "xml">>, <<"b", "shortcut">> }

AllPaths ==
    InputPaths
    \cup { with_suffix(q, SuffixXml) : q \in InputPaths }
    \cup { with_suffix(q, SuffixActions) : q \in InputPaths }

\* ------------------------------------------------------------------ files
\* A file is its bytes and what asn1crypto makes of them as a ContentInfo:
\* the parse is the library's, so its outcome is a given of the file.
Missing == [kind |-> "missing"]
File(cmsParse, data) == [kind |-> "file", cms |-> cmsParse, data |-> data]

CmsMalformed == [st |-> "malformed"]          \* not BER/DER, or not a ContentInfo
CmsOtherType == [st |-> "other_type"]         \* content_type is not signed_data
CmsNoContent == [st |-> "no_content"]         \* encap_content_info has no content
CmsSigned(content) == [st |-> "signed", content |-> content]

ErrAsn1 == "Error parsing asn1crypto.cms.ContentInfo"
ErrNotSigned == "File is not CMS signedData"
ErrNoContent == "Shortcut contains no embedded plist content"

extract_cms_payload(file) ==
    CASE file.cms.st = "malformed" -> Raise(ErrAsn1)
      [] file.cms.st = "other_type" -> Raise(ErrNotSigned)
      [] file.cms.st = "no_content" -> Raise(ErrNoContent)
      [] OTHER -> Ok(file.cms.content)

\* ------------------------------------------------- decode_plist_to_dict
\* The documents of the batch: a workflow of two actions, and one whose
\* action sequence holds a string where an action mapping belongs.
DocPlain ==
    PyDict(Pair(KeyActions, PyList(<<ActionB, ActionA>>)))
DocStringAction ==
    PyDict(Pair(KeyActions, PyList(<<ActionA, PyStr("x")>>)))

\* plistlib.loads, as a stand-in codec: the marker and one byte that names the
\* document; everything else is rejected (the real XML form is left out).
decode_plist_to_dict(plist_bytes) ==
    IF StartsWith(plist_bytes, BplistMagic) /\ Len(plist_bytes) = 9
       /\ plist_bytes[9] \in {1, 2}
    THEN Ok(IF plist_bytes[9] = 1 THEN DocPlain ELSE DocStringAction)
    ELSE Raise("Failed to decode plist")

\* the first bytes of what write_xml_plist and write_text leave in a file
XmlBytes == <<60, 63, 120, 109, 108>>                     \* b"<?xml"
TextBytes(text) == IF text = <<>> THEN <<>> ELSE <<10, 61>>   \* b"\n="

AeaFile(plain) == Header(AEA1Magic, 2) \o <<0, 0>> \o RawBlock(plain) \o BvxEnd

\* what an input file may hold
Contents ==
    { File(CmsMalformed, <<0, 1>>),
      File(CmsSigned(BplistMagic \o <<1>>), <<48, 128>>),
      File(CmsSigned(<<60, 63>>), <<48, 128>>),
      File(CmsSigned(BplistMagic \o <<2>>), <<48, 128>>),
      File(CmsMalformed, AeaFile(<<7>> \o BplistMagic \o <<1>>)),
      File(CmsOtherType, AeaFile(<<7, 7>>)),
      File(CmsNoContent, <<48, 128>>),
      File(CmsSigned(BplistMagic \o <<1>>), AeaFile(BplistMagic \o <<2>>)) }

\* ------------------------------------------------------------------- main
Range(seq) == { seq[k] : k \in 1..Len(seq) }

\* the command lines: no selector, -A, -B, -C
ArgSets ==
    { [xml |-> FALSE, actions |-> FALSE, both |-> FALSE],
      [xml |-> TRUE, actions |-> FALSE, both |-> FALSE],
      [xml |-> FALSE, actions |-> TRUE, both |-> FALSE],
      [xml |-> FALSE, actions |-> FALSE, both |-> TRUE] }

Init ==
    /\ AeaOff
    /\ RenderOff
    /\ files \in UNION { [1..n -> InputPaths] : n \in 1..MaxFiles }
    /\ \E args \in ArgSets :
         /\ do_xml = (args.xml \/ args.both)
         /\ do_actions = (args.actions \/ args.both)
    /\ lzfse \in BOOLEAN
    /\ \E given \in [Range(files) -> Contents \cup {Missing}] :
         fs = [q \in AllPaths |-> IF q \in Range(files) THEN given[q] ELSE Missing]
    /\ idx = 1
    /\ pc = "args"
    /\ e = ""
    /\ payload = <<>>
    /\ via = "none"
    /\ plist_dict = NoValue
    /\ log = <<>>

Report(ev) == log' = Append(log, ev)

\* leave process_shortcut (or skip the path) and go on with the next path
NextPath ==
    /\ idx' = idx + 1
    /\ pc' = "loop"
    /\ e' = ""
    /\ payload' = <<>>
    /\ via' = "none"
    /\ plist_dict' = NoValue

\* main: no output mode selected is a usage error, before any file
CheckArgs ==
    /\ pc = "args"
    /\ IF ~(do_xml \/ do_actions)
       THEN /\ Report([ev |-> "usage", i |-> 0])
            /\ pc' = "exit1"
       ELSE /\ pc' = "loop"
            /\ UNCHANGED log
    /\ UNCHANGED <<files, do_xml, do_actions, lzfse, fs, idx, e, payload, via,
                   plist_dict, aeaVars, renderVars>>

\* main: the head of the loop body, up to the call of process_shortcut
LoopStep ==
    /\ pc = "loop"
    /\ idx <= Len(files)
    /\ IF fs[files[idx]].kind = "missing"
       THEN /\ Report([ev |-> "not_found", i |-> idx])
            /\ NextPath
       ELSE /\ Report([ev |-> "processing", i |-> idx])
            /\ pc' = "cms"
            /\ UNCHANGED <<idx, e, payload, via, plist_dict>>
    /\ UNCHANGED <<files, do_xml, do_actions, lzfse, fs, aeaVars, renderVars>>

\* main: the list is exhausted
LoopEnd ==
    /\ pc = "loop"
    /\ idx > Len(files)
    /\ pc' = "exit0"
    /\ UNCHANGED <<files, do_xml, do_actions, lzfse, fs, idx, e, payload, via,
                   plist_dict, log, aeaVars, renderVars>>

\* TryCms going on to the second extractor after a CMS success too
TryCmsFallsThrough ==
    /\ pc = "cms"
    /\ LET r == extract_cms_payload(fs[files[idx]])
       IN  /\ Report([ev |-> "try", i |-> idx, x |-> "cms", ok |-> r.ok])
           /\ IF r.ok
              THEN payload' = r.val /\ via' = "cms" /\ UNCHANGED e
              ELSE e' = r.err /\ UNCHANGED <<payload, via>>
           /\ pc' = "aea1"
    /\ UNCHANGED <<files, do_xml, do_actions, lzfse, fs, idx, plist_dict,
                   aeaVars, renderVars>>

\* process_shortcut: try: payload = extract_cms_payload(path)
TryCms ==
    /\ pc = "cms"
    /\ LET r == extract_cms_payload(fs[files[idx]])
       IN  /\ Report([ev |-> "try", i |-> idx, x |-> "cms", ok |-> r.ok])
           /\ IF r.ok
              THEN /\ payload' = r.val
                   /\ via' = "cms"
                   /\ pc' = "decode"
                   /\ UNCHANGED e
              ELSE /\ e' = r.err
                   /\ pc' = "aea1"
                   /\ UNCHANGED <<payload, via>>
    /\ UNCHANGED <<files, do_xml, do_actions, lzfse, fs, idx, plist_dict,
                   aeaVars, renderVars>>

\* TryAea1 reporting the second extractor's message alone
TryAea1DropsCmsError ==
    /\ pc = "aea1"
    /\ LET r == extract_aea1_lzfse_payload(fs[files[idx]].data, lzfse)
       IN  IF r.ok
           THEN /\ log' = Append(log, [ev |-> "try", i |-> idx, x |-> "aea1", ok |-> TRUE])
                /\ payload' = r.val
                /\ via' = "aea1"
                /\ pc' = "decode"
                /\ UNCHANGED <<idx, e, plist_dict>>
           ELSE /\ log' = log \o << [ev |-> "try", i |-> idx, x |-> "aea1", ok |-> FALSE],
                                    [ev |-> "extract_failed", i |-> idx,
                                     cms |-> "", aea1 |-> r.err] >>
                /\ NextPath
    /\ UNCHANGED <<files, do_xml, do_actions, lzfse, fs, aeaVars, renderVars>>

\* process_shortcut: except: try: payload = extract_aea1_lzfse_payload(path)
TryAea1 ==
    /\ pc = "aea1"
    /\ LET r == extract_aea1_lzfse_payload(fs[files[idx]].data, lzfse)
       IN  IF r.ok
           THEN /\ log' = Append(log, [ev |-> "try", i |-> idx, x |-> "aea1", ok |-> TRUE])
                /\ payload' = r.val
                /\ via' = "aea1"
                /\ pc' = "decode"
                /\ UNCHANGED <<idx, e, plist_dict>>
           ELSE /\ log' = log \o << [ev |-> "try", i |-> idx, x |-> "aea1", ok |-> FALSE],
                                    [ev |-> "extract_failed", i |-> idx,
                                     cms |-> e, aea1 |-> r.err] >>
                /\ NextPath
    /\ UNCHANGED <<files, do_xml, do_actions, lzfse, fs, aeaVars, renderVars>>

\* process_shortcut: plist_dict = decode_plist_to_dict(payload)
Decode ==
    /\ pc = "decode"
    /\ LET r == decode_plist_to_dict(payload)
       IN  IF r.ok
           THEN /\ plist_dict' = r.val
                /\ pc' = "xml"
                /\ UNCHANGED <<idx, e, payload, via, log>>
           ELSE /\ Report([ev |-> "decode_failed", i |-> idx])
                /\ NextPath
    /\ UNCHANGED <<files, do_xml, do_actions, lzfse, fs, aeaVars, renderVars>>

\* process_shortcut: if do_xml: write_xml_plist(plist_dict, xml_path)
WriteXml ==
    /\ pc = "xml"
    /\ IF do_xml
       THEN LET xml_path == with_suffix(files[idx], SuffixXml)
            IN  /\ fs' = [fs EXCEPT ![xml_path] = File(CmsMalformed, XmlBytes)]
                /\ Report([ev |-> "write", i |-> idx, path |-> xml_path])
       ELSE UNCHANGED <<fs, log>>
    /\ pc' = "actions"
    /\ UNCHANGED <<files, do_xml, do_actions, lzfse, idx, e, payload, via,
                   plist_dict, aeaVars, renderVars>>

\* process_shortcut: if do_actions: render and write; an exception raised by
\* render_action_list is caught nowhere and ends main with a traceback
WriteActions ==
    /\ pc = "actions"
    /\ IF do_actions
       THEN LET txt_path == with_suffix(files[idx], SuffixActions)
                readable == render_action_list(plist_dict)
            IN  IF readable.ok
                THEN /\ fs' = [fs EXCEPT ![txt_path] =
                                 File(CmsMalformed, TextBytes(readable.val))]
                     /\ Report([ev |-> "write", i |-> idx, path |-> txt_path])
                     /\ NextPath
                ELSE /\ Report([ev |-> "traceback", i |-> idx])
                     /\ pc' = "crashed"
                     /\ UNCHANGED <<fs, idx, e, payload, via, plist_dict>>
       ELSE /\ NextPath
            /\ UNCHANGED <<fs, log>>
    /\ UNCHANGED <<files, do_xml, do_actions, lzfse, aeaVars, renderVars>>

Next ==
    \/ CheckArgs
    \/ LoopStep
    \/ LoopEnd
    \/ TryCms
    \/ TryAea1
    \/ Decode
    \/ WriteXml
    \/ WriteActions

Spec == Init /\ [][Next]_vars

\* --------------------------------------------------------- the batch claims
\* positions of the log that report a failure for the k-th path
Failures(k) ==
    { p \in 1..Len(log) :
        log[p].i = k /\ log[p].ev \in {"not_found", "extract_failed", "decode_failed"} }

\* the paths written while the k-th path was processed
WritesOf(k) ==
    { log[p].path : p \in { q \in 1..Len(log) : log[q].i = k /\ log[q].ev = "write" } }

\* the outputs the selected mode asks for the k-th path
Requested(k) ==
    (IF do_xml THEN {with_suffix(files[k], SuffixXml)} ELSE {})
    \cup (IF do_actions THEN {with_suffix(files[k], SuffixActions)} ELSE {})

\* the k-th path ended in one reported failure and no output, or in no
\* failure and every requested output
Handled(k) ==
    \/ Cardinality(Failures(k)) = 1 /\ WritesOf(k) = {}
    \/ Failures(k) = {} /\ WritesOf(k) = Requested(k)

\* C1: when main has ended, every path of the list was reached, in list
\* order: each ended in one reported failure and no output, or in its
\* requested outputs, the paths after a failed one included.
C1_EveryPathHandled ==
    pc \in {"exit0", "crashed"} =>
        /\ \A k \in 1..Len(files) : Handled(k)
        /\ \A p, q \in 1..Len(log) : p < q => log[p].i <= log[q].i

\* the log entry at p is an attempt of extractor x on some path
IsTry(p, x) == log[p].ev = "try" /\ log[p].x = x

\* C2: the CMS extractor is attempted first, the AEA1 extractor if and only if
\* the CMS attempt failed; a file both accept resolves with the CMS payload;
\* dispatch ends Resolved (a payload of one extractor) or Failed (both failed).
C2_DispatchOrder ==
    /\ \A p \in 1..Len(log) :
         IsTry(p, "aea1") =>
            /\ p > 1
            /\ IsTry(p - 1, "cms") /\ log[p - 1].i = log[p].i /\ ~log[p - 1].ok
    /\ \A p \in 1..Len(log) :
         IsTry(p, "cms") =>
            /\ p > 1
            /\ log[p - 1].ev = "processing" /\ log[p - 1].i = log[p].i
            /\ IF log[p].ok
               THEN p = Len(log) \/ log[p + 1].ev # "try"
               ELSE IF p = Len(log) THEN pc = "aea1"
                    ELSE IsTry(p + 1, "aea1") /\ log[p + 1].i = log[p].i
    /\ \A p \in 1..Len(log) :
         log[p].ev = "extract_failed" =>
            /\ p > 2
            /\ IsTry(p - 1, "aea1") /\ ~log[p - 1].ok
            /\ IsTry(p - 2, "cms") /\ ~log[p - 2].ok
    /\ pc = "decode" =>
         LET file == fs[files[idx]]
         IN  /\ via \in {"cms", "aea1"}
             /\ IsTry(Len(log), via) /\ log[Len(log)].ok /\ log[Len(log)].i = idx
             /\ (file.cms.st = "signed") <=> (via = "cms")
             /\ via = "cms" => payload = file.cms.content
    /\ pc \in {"xml", "actions", "crashed"} => via \in {"cms", "aea1"}
    /\ pc \in {"loop", "cms", "aea1", "exit0"} => via = "none"

\* C2 witness: a file both extractors accept, resolved with the CMS payload
C2_Witness ==
    /\ pc = "decode"
    /\ via = "cms"
    /\ extract_aea1_lzfse_payload(fs[files[idx]].data, lzfse).ok
    /\ payload # extract_aea1_lzfse_payload(fs[files[idx]].data, lzfse).val

\* neither a CMS signed-data structure nor an "AEA1" buffer
MatchesNeither(file) ==
    /\ file.kind = "file"
    /\ file.cms.st \in {"malformed", "other_type"}
    /\ ~StartsWith(file.data, AEA1Magic)

\* C3: for a file that matches neither leading magic process_shortcut does not
\* raise: the CMS attempt leads to the second attempt, which reports one
\* failure carrying the CMS message and the AEA1 message, writes nothing and
\* returns to the loop.
C3_NeitherFormatIsReported ==
    [][ (pc \in {"cms", "aea1"} /\ MatchesNeither(fs[files[idx]])) =>
          /\ fs' = fs
          /\ pc = "cms" =>
               /\ pc' = "aea1"
               /\ e' = (IF fs[files[idx]].cms.st = "malformed" THEN ErrAsn1
                        ELSE ErrNotSigned)
          /\ pc = "aea1" =>
               /\ pc' = "loop" /\ idx' = idx + 1
               /\ Len(log') = Len(log) + 2
               /\ log'[Len(log')] =
                    [ev |-> "extract_failed", i |-> idx, cms |-> e,
                     aea1 |-> (IF lzfse THEN ErrNotAea1 ELSE ErrNoLzfse)]
               /\ Cardinality({ p \in 1..Len(log') :
                                  log'[p].i = idx /\ log'[p].ev = "extract_failed" }) = 1
      ]_vars

\* C3 witness: such a file was reported with both messages and main is back
\* at the head of the loop
C3_Witness ==
    /\ pc = "loop"
    /\ Len(log) > 0
    /\ log[Len(log)].ev = "extract_failed"
    /\ log[Len(log)].cms = ErrAsn1
    /\ log[Len(log)].aea1 = ErrNotAea1
    /\ WritesOf(log[Len(log)].i) = {}

\* C5: every payload handed to decode_plist_to_dict begins with "bplist00",
\* whichever extractor produced it.
C5_PayloadBeginsWithMarker ==
    pc = "decode" => StartsWith(payload, BplistMagic)

\* C5 amended: a payload of extract_aea1_lzfse_payload handed to the codec
\* begins with "bplist00"; a payload of extract_cms_payload is the
\* encapsulated content as it is, marker or not.
C5_Aea1PayloadBeginsWithMarker ==
    pc = "decode" =>
        /\ via = "aea1" => StartsWith(payload, BplistMagic)
        /\ via = "cms" => payload = fs[files[idx]].cms.content

\* C5 witness: an AEA1 payload cut out of a buffer with bytes in front of the
\* marker is at the codec
C5_Witness ==
    /\ pc = "decode"
    /\ via = "aea1"
    /\ Len(payload) < Len(Decompress(Slice(fs[files[idx]].data,
                                           Find(fs[files[idx]].data, BvxMagic, 12))).val)

\* C10: the output paths written for one input path are never those written
\* for another input path, and no output path is an input path of the batch.
C10_NoSharedOutputPath ==
    /\ \A j, k \in 1..Len(files) :
         files[j] # files[k] => WritesOf(j) \cap WritesOf(k) = {}
    /\ \A k \in 1..Len(files) : WritesOf(k) \cap Range(files) = {}

====
